---- MODULE Spec2Model ----
(***************************************************************************)
(* Smart attendance system: the Express server (server/server.js) and the  *)
(* React frontend (App.jsx) that drives it.                                *)
(*                                                                         *)
(* Time is counted in ticks of TickMs milliseconds.  Date.now(), new       *)
(* Date() and toISOString() are read off the one clock `now`;              *)
(* toISOString() is an order-preserving, lossless rendering of the epoch   *)
(* value, so timestamps are kept as the integer they render.               *)
(*                                                                         *)
(* Every `await` of a handler is a suspension point: the handler is cut    *)
(* into one action per stretch of synchronous code, and the storage call   *)
(* it awaits takes effect atomically at the start of the next stretch.     *)
(***************************************************************************)
EXTENDS Integers, Sequences, FiniteSets, TLC

VARIABLES
    now,               \* the server clock, in ticks
    attendance,        \* table attendance: sequence of rows, in commit order
    students,          \* table students: id -> [name, is_trained]
    face_descriptors,  \* table face_descriptors: student_id -> rows, in commit order
    req,               \* POST /api/attendance/confirm requests, by request number
    mode,              \* App state: 'train' or 'recognize'
    untrainedStudents, \* App state: list of student ids shown in the select
    selectedStudent,   \* App state: student id or Null
    capturedPhotos,    \* App state: list of photo numbers
    task,              \* captureTrainingPhoto invocations in flight, by slot
    fetches,           \* fetchUntrainedStudents calls awaiting their response
    lastSaved,         \* the photo_number last saved in the training session under way
    labeledDescriptors,  \* App state: Null or the loaded LabeledFaceDescriptors
    isRecognizing,       \* App state
    recognitionInterval, \* App state: Null or a timer id
    lastAttendance,      \* App state: Null or the record last confirmed
    loads,               \* loadAllDescriptors calls awaiting their response
    timers,              \* setInterval timers: id -> the closure it calls, or Null
    handling,            \* handleRecognizedAttendance invocations in flight, by slot
    tz,                  \* the server's time zone: local time minus UTC, in ticks
    marked,              \* POST /api/students/:id/trained calls answered, in order
    query                \* the GET /api/attendance call answered last

vars == <<now, attendance, students, face_descriptors, req,
          mode, untrainedStudents, selectedStudent, capturedPhotos, task, fetches,
          lastSaved, labeledDescriptors, isRecognizing, recognitionInterval,
          lastAttendance, loads, timers, handling, tz, marked, query>>

dbVars == <<attendance, students, face_descriptors>>
recVars == <<labeledDescriptors, isRecognizing, recognitionInterval,
             lastAttendance, loads, timers, handling>>
appVars == <<mode, untrainedStudents, selectedStudent, capturedPhotos, task, fetches,
             lastSaved, recVars>>
srvVars == <<tz, marked, query>>

----------------------------------------------------------------------------
(* Bounds of the model *)

MaxTime == 3
MaxReq == 2
MaxDescriptors == 6
MaxInFlight == 2
MaxFetches == 1
MaxMarked == 3
MaxDay == 2
MaxLoads == 1
MaxSessions == 2
MaxHandling == 1

(* Program constants *)

\* the resolution of the clock: one tick is two and a half minutes
TickMs == 150 * 1000

\* Date.now() - 5 * 60 * 1000
FiveMinutes == (5 * 60 * 1000) \div TickMs

\* if (photoNumber === 5)
PhotosNeeded == 5

\* disabled={... || capturedPhotos.length >= 5}
CaptureLimit == 5

----------------------------------------------------------------------------
(* Values *)

Null == "null"
Absent == "undefined"

StudentIds == {"S1", "S2"}
RoomIds == {"ROOM-101", "ROOM-102"}

StudentName(id) == IF id = "S1" THEN "Alice" ELSE "Bob"

Reqs == 1..MaxReq

NoRow == [id |-> 0]

\* useState(null) of recognitionInterval; the ids setInterval gives are positive
NoTimer == 0

\* useState('ROOM-101'); the Room ID field is left as it is
roomId == "ROOM-101"

\* !x of JavaScript for a string-valued JSON body field: missing, null or ''
Falsy(x) == x \in {Absent, Null, ""}

\* a numeric field that is missing from the body, or null in a row
NoNumber == -1

----------------------------------------------------------------------------
(* POST /api/attendance/confirm *)

\* the validation with room_id left out of it
MissingRequiredFieldsButRoom(body) ==
    Falsy(body.student_id) \/ Falsy(body.student_name)

\* if (!student_id || !student_name || !room_id)
MissingRequiredFields(body) ==
    Falsy(body.student_id) \/ Falsy(body.student_name) \/ Falsy(body.room_id)

\* the query with .gt in place of .gte
RecentRowsAfter(rows, student_id, room_id, fiveMinutesAgo) ==
    { i \in 1..Len(rows) :
        /\ rows[i].student_id = student_id
        /\ rows[i].room_id = room_id
        /\ rows[i].timestamp > fiveMinutesAgo }

\* .eq('student_id', ..).eq('room_id', ..).gte('timestamp', fiveMinutesAgo)
RecentRows(rows, student_id, room_id, fiveMinutesAgo) ==
    { i \in 1..Len(rows) :
        /\ rows[i].student_id = student_id
        /\ rows[i].room_id = room_id
        /\ rows[i].timestamp >= fiveMinutesAgo }

\* .order('timestamp', { ascending: false }).limit(1): the rows the query may
\* return first; rows of equal timestamp come in an order the store chooses
NewestOf(rows, I) ==
    { i \in I : \A j \in I : rows[j].timestamp <= rows[i].timestamp }

\* confidence: confidence || null
ConfidenceOrNull(confidence) ==
    IF confidence = NoNumber \/ confidence = 0 THEN NoNumber ELSE confidence

\* the row stamped with the start of the window instead of the clock
NewAttendanceAtWindowStart(body, timestamp) ==
    [ student_id   |-> body.student_id,
      student_name |-> body.student_name,
      room_id      |-> body.room_id,
      confidence   |-> ConfidenceOrNull(body.confidence),
      timestamp    |-> timestamp - FiveMinutes ]

\* the object passed to .insert([...]); the store assigns the id
NewAttendance(body, timestamp) ==
    [ student_id   |-> body.student_id,
      student_name |-> body.student_name,
      room_id      |-> body.room_id,
      confidence   |-> ConfidenceOrNull(body.confidence),
      timestamp    |-> timestamp ]

StoredRow(rows, row) ==
    [ id           |-> Len(rows) + 1,
      student_id   |-> row.student_id,
      student_name |-> row.student_name,
      room_id      |-> row.room_id,
      confidence   |-> row.confidence,
      timestamp    |-> row.timestamp ]

\* an insert the store drops when the pair has a row inside the window
InsertAttendanceUnlessRecent(rows, row) ==
    IF \E i \in 1..Len(rows) :
          /\ rows[i].student_id = row.student_id
          /\ rows[i].room_id = row.room_id
          /\ rows[i].timestamp > row.timestamp - FiveMinutes
    THEN rows
    ELSE Append(rows, StoredRow(rows, row))

\* an insert that stores the row twice
InsertAttendanceTwice(rows, row) ==
    Append(Append(rows, StoredRow(rows, row)), StoredRow(Append(rows, row), row))

\* supabase.from('attendance').insert([row]).select(): the table afterwards
InsertAttendance(rows, row) == Append(rows, StoredRow(rows, row))

IdleReq ==
    [ pc |-> "idle", body |-> NoRow, called |-> 0, prior |-> {},
      fiveMinutesAgo |-> 0, answered |-> 0, checkError |-> FALSE, found |-> FALSE,
      row |-> NoRow, insertError |-> FALSE,
      reads |-> 0, writes |-> 0, status |-> 0, resp |-> NoRow ]

\* Lines 166-192: destructure, validate, compute the window, issue the read.
ConfirmReceived(r, body) ==
    /\ req[r].pc = "idle"
    /\ \A q \in Reqs : q < r => req[q].pc # "idle"
    /\ IF MissingRequiredFields(body)
       THEN req' = [req EXCEPT ![r] =
                [@ EXCEPT !.pc = "done", !.body = body, !.called = now,
                          !.prior = { q \in Reqs : req[q].pc = "done" },
                          !.status = 400]]
       ELSE req' = [req EXCEPT ![r] =
                [@ EXCEPT !.pc = "read", !.body = body, !.called = now,
                          !.prior = { q \in Reqs : req[q].pc = "done" },
                          !.fiveMinutesAgo = now - FiveMinutes,
                          !.reads = @ + 1]]

\* the request sent by a client other than the App
ConfirmReceive(r, body) ==
    /\ ConfirmReceived(r, body)
    /\ UNCHANGED <<now, dbVars, appVars, srvVars>>

\* Lines 194-202, read answered with rows: 409 when one came back.
ConfirmDuplicate(r) ==
    /\ req[r].pc = "read"
    /\ \E i \in NewestOf(attendance,
                  RecentRows(attendance, req[r].body.student_id,
                             req[r].body.room_id, req[r].fiveMinutesAgo)) :
         req' = [req EXCEPT ![r] =
                    [@ EXCEPT !.pc = "done", !.found = TRUE,
                              !.status = 409, !.resp = attendance[i]]]
    /\ UNCHANGED <<now, dbVars, appVars, srvVars>>

\* Lines 194-214, read answered with no rows, or with an error (logged only):
\* build the row with timestamp: new Date() and issue the insert.
ConfirmProceed(r, checkError) ==
    /\ req[r].pc = "read"
    /\ checkError \/ RecentRows(attendance, req[r].body.student_id,
                                req[r].body.room_id, req[r].fiveMinutesAgo) = {}
    /\ req' = [req EXCEPT ![r] =
                  [@ EXCEPT !.pc = "insert", !.checkError = checkError,
                            !.answered = now,
                            !.row = NewAttendance(req[r].body, now),
                            !.writes = @ + 1]]
    /\ UNCHANGED <<now, dbVars, appVars, srvVars>>

\* Lines 216-225, insert committed: 201 with the stored row.
ConfirmInserted(r) ==
    /\ req[r].pc = "insert"
    /\ attendance' = InsertAttendance(attendance, req[r].row)
    /\ req' = [req EXCEPT ![r] =
                  [@ EXCEPT !.pc = "done", !.status = 201,
                            !.resp = attendance'[Len(attendance')]]]
    /\ UNCHANGED <<now, students, face_descriptors, appVars, srvVars>>

\* Lines 216-219, insert rejected by the store: 500.
ConfirmInsertFailed(r) ==
    /\ req[r].pc = "insert"
    /\ req' = [req EXCEPT ![r] =
                  [@ EXCEPT !.pc = "done", !.insertError = TRUE, !.status = 500]]
    /\ UNCHANGED <<now, dbVars, appVars, srvVars>>

\* The clock advances between any two stretches of synchronous code; it is
\* followed from the first request on, for as long as a request can read it.
Tick ==
    /\ now < MaxTime
    /\ \E r \in Reqs : req[r].pc # "idle"
    /\ \E r \in Reqs : req[r].pc # "done"
    /\ now' = now + 1
    /\ UNCHANGED <<dbVars, req, appVars, srvVars>>

----------------------------------------------------------------------------
(* Training: POST /api/face-descriptors, POST /api/students/:id/trained,
   GET /api/students/untrained, and the App component that calls them.

   A handler of these three makes one storage call; the call and the
   continuation of the caller that awaits the response are one action.  The
   video element is mounted, the webcam is started and the models are loaded. *)

\* if (!student_id || !descriptor || !photo_number); the descriptor is the
\* array Array.from(detection.descriptor), which is never falsy
MissingDescriptorFields(student_id, photo_number) ==
    Falsy(student_id) \/ photo_number = NoNumber \/ photo_number = 0

\* .from('face_descriptors').insert([{ student_id, descriptor, photo_number }])
InsertDescriptor(table, student_id, photo_number) ==
    [table EXCEPT ![student_id] =
        Append(@, [student_id |-> student_id, photo_number |-> photo_number])]

\* the number of rows of the table
RECURSIVE CountRows(_, _)
CountRows(table, ids) ==
    IF ids = {} THEN 0
    ELSE LET s == CHOOSE x \in ids : TRUE
         IN  Len(table[s]) + CountRows(table, ids \ {s})

UpdateTrainedFlipped(table, id) ==
    [ s \in DOMAIN table |->
        IF s = id THEN [table[s] EXCEPT !.is_trained = ~@] ELSE table[s] ]

\* .from('students').update({ is_trained: true }).eq('id', id)
UpdateTrained(table, id) ==
    [ s \in DOMAIN table |->
        IF s = id THEN [table[s] EXCEPT !.is_trained = TRUE] ELSE table[s] ]

\* .from('students').select('*').eq('is_trained', false).order('name'):
\* the ids of the untrained students, by name
NameOrder == <<"Alice", "Bob">>

NameRank(name) == CHOOSE i \in 1..Len(NameOrder) : NameOrder[i] = name

RECURSIVE OrderByName(_, _)
OrderByName(table, ids) ==
    IF ids = {} THEN << >>
    ELSE LET first == CHOOSE s \in ids : \A o \in ids :
                          NameRank(table[s].name) <= NameRank(table[o].name)
         IN  <<first>> \o OrderByName(table, ids \ {first})

UntrainedStudents(table) ==
    OrderByName(table, { s \in DOMAIN table : ~table[s].is_trained })

Tasks == 1..MaxInFlight

\* `current` tells the calls made in the training session under way from
\* those made before the student or the photo list was last reset
DoneTask ==
    [pc |-> "done", student |-> Null, photos |-> << >>, photoNumber |-> 0,
     current |-> FALSE]

\* a session ends: the calls still in flight belong to the one before
Outdated(tasks) == [ t \in DOMAIN tasks |-> [tasks[t] EXCEPT !.current = FALSE] ]

InFlight == { t \in Tasks : task[t].pc # "done" }

\* the Capture Photo button is rendered and enabled
CaptureEnabled ==
    /\ mode = "train"
    /\ Len(untrainedStudents) > 0
    /\ Len(capturedPhotos) < CaptureLimit

\* onClick={captureTrainingPhoto}, up to the await of the detection; the
\* function closes over selectedStudent and capturedPhotos of this render.
ClickCapture ==
    /\ CaptureEnabled
    /\ selectedStudent # Null
    /\ CountRows(face_descriptors, StudentIds) + Cardinality(InFlight) < MaxDescriptors
    /\ \E t \in Tasks \ InFlight :
         /\ \A u \in Tasks \ InFlight : t <= u
         /\ task' = [task EXCEPT ![t] =
                        [pc |-> "detect", student |-> selectedStudent,
                         photos |-> capturedPhotos, photoNumber |-> 0,
                         current |-> TRUE]]
    /\ UNCHANGED <<now, dbVars, req, recVars, srvVars, mode, untrainedStudents,
                   selectedStudent, capturedPhotos, fetches, lastSaved>>

\* Lines 167-171: no face in the frame.
CaptureNoFace(t) ==
    /\ t \in InFlight /\ task[t].pc = "detect"
    /\ task' = [task EXCEPT ![t] = DoneTask]
    /\ UNCHANGED <<now, dbVars, req, recVars, srvVars, mode, untrainedStudents,
                   selectedStudent, capturedPhotos, fetches, lastSaved>>

\* Lines 174-177: photoNumber from the closed-over list, the save is sent.
CaptureDetected(t) ==
    /\ t \in InFlight /\ task[t].pc = "detect"
    /\ task' = [task EXCEPT ![t] =
                   [@ EXCEPT !.pc = "save",
                             !.photoNumber = Len(task[t].photos) + 1]]
    /\ UNCHANGED <<now, dbVars, req, recVars, srvVars, mode, untrainedStudents,
                   selectedStudent, capturedPhotos, fetches, lastSaved>>

\* POST /api/face-descriptors answers 201, then lines 179-185.
CaptureSaved(t) ==
    /\ t \in InFlight /\ task[t].pc = "save"
    /\ ~MissingDescriptorFields(task[t].student, task[t].photoNumber)
    /\ face_descriptors' =
           InsertDescriptor(face_descriptors, task[t].student, task[t].photoNumber)
    /\ capturedPhotos' = Append(task[t].photos, task[t].photoNumber)
    /\ lastSaved' = IF task[t].current THEN task[t].photoNumber ELSE lastSaved
    /\ task' = [task EXCEPT ![t] =
                   IF task[t].photoNumber = PhotosNeeded
                   THEN [@ EXCEPT !.pc = "mark"] ELSE DoneTask]
    /\ UNCHANGED <<now, attendance, students, req, recVars, srvVars, mode,
                   untrainedStudents, selectedStudent, fetches>>

\* POST /api/face-descriptors answers 400 or 500: saveFaceDescriptor throws,
\* lines 192-196.
CaptureSaveFailed(t) ==
    /\ t \in InFlight /\ task[t].pc = "save"
    /\ task' = [task EXCEPT ![t] = DoneTask]
    /\ UNCHANGED <<now, dbVars, req, recVars, srvVars, mode, untrainedStudents,
                   selectedStudent, capturedPhotos, fetches, lastSaved>>

\* POST /api/students/:id/trained answers 200, then lines 187-190:
\* the list is emptied and fetchUntrainedStudents() is started.
CaptureMarked(t) ==
    /\ t \in InFlight /\ task[t].pc = "mark"
    /\ fetches < MaxFetches
    /\ students' = UpdateTrained(students, task[t].student)
    /\ capturedPhotos' = << >>
    /\ lastSaved' = 0
    /\ fetches' = fetches + 1
    /\ task' = Outdated([task EXCEPT ![t] = DoneTask])
    /\ UNCHANGED <<now, attendance, face_descriptors, req, recVars, srvVars, mode,
                   untrainedStudents, selectedStudent>>

\* POST /api/students/:id/trained answers 500: markStudentTrained throws.
CaptureMarkFailed(t) ==
    /\ t \in InFlight /\ task[t].pc = "mark"
    /\ task' = [task EXCEPT ![t] = DoneTask]
    /\ UNCHANGED <<now, dbVars, req, recVars, srvVars, mode, untrainedStudents,
                   selectedStudent, capturedPhotos, fetches, lastSaved>>

\* fetchUntrainedStudents, from the response on (lines 73-77).
FetchedUntrained ==
    /\ fetches > 0
    /\ fetches' = fetches - 1
    /\ untrainedStudents' = UntrainedStudents(students)
    /\ selectedStudent' =
           IF Len(untrainedStudents') > 0 THEN untrainedStudents'[1]
           ELSE selectedStudent
    /\ IF selectedStudent' # selectedStudent
       THEN lastSaved' = 0 /\ task' = Outdated(task)
       ELSE UNCHANGED <<lastSaved, task>>
    /\ UNCHANGED <<now, dbVars, req, recVars, srvVars, mode, capturedPhotos>>

\* fetchUntrainedStudents, the request failing (lines 78-81).
FetchFailed ==
    /\ fetches > 0
    /\ fetches' = fetches - 1
    /\ UNCHANGED <<now, dbVars, req, recVars, srvVars, mode, untrainedStudents,
                   selectedStudent, capturedPhotos, task, lastSaved>>

\* <select onChange>: another student of the list is chosen.
SelectStudent(s) ==
    /\ mode = "train"
    /\ \E i \in 1..Len(untrainedStudents) : untrainedStudents[i] = s
    /\ s # selectedStudent
    /\ selectedStudent' = s
    /\ capturedPhotos' = << >>
    /\ lastSaved' = 0
    /\ task' = Outdated(task)
    /\ UNCHANGED <<now, dbVars, req, recVars, srvVars, mode, untrainedStudents, fetches>>

\* stopRecognition() as called from a render whose recognitionInterval is
\* `seen` (lines 305-316)
StopRecognition(seen) ==
    IF seen # NoTimer
    THEN /\ timers' = [timers EXCEPT ![seen].state = "cleared"]
         /\ recognitionInterval' = NoTimer
         /\ isRecognizing' = FALSE
    ELSE UNCHANGED <<timers, recognitionInterval, isRecognizing>>

\* The Recognition Mode button; captures in flight go on.  When the mode
\* changes, the effect on [mode] starts loadAllDescriptors.
SwitchToRecognize ==
    /\ mode # "recognize" \/ capturedPhotos # << >>
    /\ mode # "recognize" => loads < MaxLoads
    /\ mode' = "recognize"
    /\ capturedPhotos' = << >>
    /\ loads' = IF mode # "recognize" THEN loads + 1 ELSE loads
    /\ lastSaved' = 0
    /\ task' = Outdated(task)
    /\ UNCHANGED <<now, dbVars, req, srvVars, untrainedStudents, selectedStudent,
                   fetches, labeledDescriptors, isRecognizing,
                   recognitionInterval, lastAttendance, timers, handling>>

\* The Training Mode button: setMode('train'); stopRecognition().  The effect
\* on [mode] starts fetchUntrainedStudents.
SwitchToTrain ==
    /\ mode # "train"
    /\ fetches < MaxFetches
    /\ mode' = "train"
    /\ fetches' = fetches + 1
    /\ StopRecognition(recognitionInterval)
    /\ UNCHANGED <<now, dbVars, req, srvVars, untrainedStudents, selectedStudent,
                   capturedPhotos, task, lastSaved, labeledDescriptors,
                   lastAttendance, loads, handling>>

----------------------------------------------------------------------------
(* Recognition: GET /api/face-descriptors, GET /api/students, and the
   recognition panel of the App component.

   A timer created by setInterval(recognizeFace, 1000) calls the recognizeFace
   of the render in which Start Recognition was clicked; that function, and
   the handleRecognizedAttendance and stopRecognition it reaches, read the
   state values of that render. *)

\* the rows GET /api/face-descriptors answers with, grouped as lines 91-112
\* group them: one LabeledFaceDescriptors per student_id that has rows,
\* labelled with the name of the student; id is the student the rows belong to
GroupedByStudent(descriptors, table) ==
    { [label |-> table[s].name, id |-> s] :
        s \in { x \in DOMAIN descriptors : Len(descriptors[x]) > 0 } }

NotLoaded == [loaded |-> FALSE, list |-> {}]

TimerIds == 1..MaxSessions

NoTimerYet ==
    [state |-> "none", labeledDescriptors |-> {}, recognitionInterval |-> NoTimer]

Handlers == 1..MaxHandling

IdleHandler ==
    [pc |-> "idle", studentName |-> Null, owner |-> Null, timer |-> NoTimer,
     student |-> Null, r |-> 0]

\* loadAllDescriptors, from the response on (lines 88-114)
LoadedDescriptors ==
    /\ loads > 0
    /\ loads' = loads - 1
    /\ labeledDescriptors' =
           [loaded |-> TRUE, list |-> GroupedByStudent(face_descriptors, students)]
    /\ UNCHANGED <<now, dbVars, req, srvVars, mode, untrainedStudents, selectedStudent,
                   capturedPhotos, task, fetches, lastSaved, isRecognizing,
                   recognitionInterval, lastAttendance, timers, handling>>

\* loadAllDescriptors, the request failing (lines 115-118)
LoadFailed ==
    /\ loads > 0
    /\ loads' = loads - 1
    /\ UNCHANGED <<now, dbVars, req, srvVars, mode, untrainedStudents, selectedStudent,
                   capturedPhotos, task, fetches, lastSaved, labeledDescriptors,
                   isRecognizing, recognitionInterval, lastAttendance, timers, handling>>

\* The Start Recognition button (lines 475-481) and startRecognition.
StartRecognition ==
    /\ mode = "recognize"
    /\ ~isRecognizing /\ labeledDescriptors.loaded
    /\ labeledDescriptors.list # {}
    /\ \E k \in TimerIds :
         /\ timers[k].state = "none"
         /\ \A j \in TimerIds : j < k => timers[j].state # "none"
         /\ timers' = [timers EXCEPT ![k] =
                          [state |-> "live",
                           labeledDescriptors |-> labeledDescriptors.list,
                           recognitionInterval |-> recognitionInterval]]
         /\ recognitionInterval' = k
    /\ isRecognizing' = TRUE
    /\ UNCHANGED <<now, dbVars, req, srvVars, mode, untrainedStudents, selectedStudent,
                   capturedPhotos, task, fetches, lastSaved, labeledDescriptors,
                   lastAttendance, loads, handling>>

\* The Stop Recognition button (lines 482-488): stopRecognition of the
\* render on screen.
ClickStopRecognition ==
    /\ mode = "recognize"
    /\ isRecognizing
    /\ StopRecognition(recognitionInterval)
    /\ UNCHANGED <<now, dbVars, req, srvVars, mode, untrainedStudents, selectedStudent,
                   capturedPhotos, task, fetches, lastSaved, labeledDescriptors,
                   lastAttendance, loads, handling>>

\* Timer k fires and recognizeFace finds a face whose best match is `match`
\* (lines 200-247); handleRecognizedAttendance(label, confidence) is called
\* and sends GET /api/students.  A tick with no face or an unknown face
\* changes nothing.
RecognizeFace(k, match) ==
    /\ timers[k].state = "live"
    /\ match \in timers[k].labeledDescriptors
    /\ \E h \in Handlers :
         /\ handling[h].pc = "idle"
         /\ \A g \in Handlers : g < h => handling[g].pc # "idle"
         /\ handling' = [handling EXCEPT ![h] =
                            [pc |-> "students", studentName |-> match.label,
                             owner |-> match.id, timer |-> k,
                             student |-> Null, r |-> 0]]
    /\ UNCHANGED <<now, dbVars, req, srvVars, mode, untrainedStudents, selectedStudent,
                   capturedPhotos, task, fetches, lastSaved, labeledDescriptors,
                   isRecognizing, recognitionInterval, lastAttendance, loads, timers>>

\* allStudents.find(s => s.name === studentName) over the answer of
\* .order('name'): the students that can come first among those of the name
FindByName(table, studentName) ==
    { s \in DOMAIN table : table[s].name = studentName }

\* GET /api/students answered (lines 267-277): the student is looked up by
\* name and POST /api/attendance/confirm is sent, as request r.
HandleFoundStudent(h, s, r) ==
    /\ handling[h].pc = "students"
    /\ s \in FindByName(students, handling[h].studentName)
    /\ ConfirmReceived(r, [ student_id |-> s, student_name |-> students[s].name,
                            room_id |-> roomId, confidence |-> 92 ])
    /\ handling' = [handling EXCEPT ![h] =
                       [@ EXCEPT !.pc = "confirm", !.student = s, !.r = r]]
    /\ UNCHANGED <<now, dbVars, srvVars, mode, untrainedStudents, selectedStudent,
                   capturedPhotos, task, fetches, lastSaved, labeledDescriptors,
                   isRecognizing, recognitionInterval, lastAttendance, loads, timers>>

\* GET /api/students fails, or no student has the name (lines 270, 282-288)
HandleNoStudent(h) ==
    /\ handling[h].pc = "students"
    /\ handling' = [handling EXCEPT ![h] = IdleHandler]
    /\ UNCHANGED <<now, dbVars, req, srvVars, mode, untrainedStudents, selectedStudent,
                   capturedPhotos, task, fetches, lastSaved, labeledDescriptors,
                   isRecognizing, recognitionInterval, lastAttendance, loads, timers>>

\* confirmAttendance resolves with the 201 (lines 279-281):
\* setLastAttendance, alert, stopRecognition() of the timer's render.
HandleConfirmed(h) ==
    /\ handling[h].pc = "confirm"
    /\ req[handling[h].r].pc = "done" /\ req[handling[h].r].status = 201
    /\ lastAttendance' = req[handling[h].r].resp
    /\ StopRecognition(timers[handling[h].timer].recognitionInterval)
    /\ handling' = [handling EXCEPT ![h] = IdleHandler]
    /\ UNCHANGED <<now, dbVars, req, srvVars, mode, untrainedStudents, selectedStudent,
                   capturedPhotos, task, fetches, lastSaved, labeledDescriptors, loads>>

\* confirmAttendance throws on the 400, 409 or 500 (lines 282-288): logged.
HandleRejected(h) ==
    /\ handling[h].pc = "confirm"
    /\ req[handling[h].r].pc = "done" /\ req[handling[h].r].status # 201
    /\ handling' = [handling EXCEPT ![h] = IdleHandler]
    /\ UNCHANGED <<now, dbVars, req, srvVars, mode, untrainedStudents, selectedStudent,
                   capturedPhotos, task, fetches, lastSaved, labeledDescriptors,
                   isRecognizing, recognitionInterval, lastAttendance, loads, timers>>

----------------------------------------------------------------------------
(* POST /api/students/:id/trained, called directly (server.js:114-136) *)

\* ids put in the path: the students and one id that no row has
UnknownId == "S0"
PathIds == StudentIds \cup {UnknownId}

\* .select() after the update: the rows the update touched
UpdatedRows(table, id) ==
    IF id \in DOMAIN table
    THEN << [id |-> id, name |-> table[id].name, is_trained |-> table[id].is_trained] >>
    ELSE << >>

MarkTrainedStatusNotFound(error, data) ==
    IF error THEN 500 ELSE IF Len(data) = 0 THEN 404 ELSE 200

\* if (error) return res.status(500)...; res.json({ message, student: data[0] })
MarkTrainedStatus(error, data) == IF error THEN 500 ELSE 200

\* The whole handler: the update is one statement of the store, which either
\* reports an error and changes nothing or answers with the rows it updated.
MarkTrained(id, error) ==
    /\ Len(marked) < MaxMarked
    /\ students' = IF error THEN students ELSE UpdateTrained(students, id)
    /\ LET data == IF error THEN << >> ELSE UpdatedRows(students', id)
       IN  marked' = Append(marked,
                        [id |-> id, error |-> error, data |-> data,
                         status |-> MarkTrainedStatus(error, data)])
    /\ UNCHANGED <<now, attendance, face_descriptors, req, appVars, tz, query>>

----------------------------------------------------------------------------
(* GET /api/attendance (server.js:233-269) *)

\* one hour and one day of the clock
Hour == (60 * 60 * 1000) \div TickMs
Day == 24 * Hour

\* new Date('YYYY-MM-DD'): a date-only string is read as midnight UTC of that
\* day; dates are numbered in days since the epoch
DateParse(date) == date * Day

\* the local calendar day an instant falls on, where local time is UTC + zone
LocalDay(t, zone) == (t + zone) \div Day

\* d.setHours(h, m, s, ms): the instant on the local day of t at the given
\* local time of day
SetHours(t, zone, timeOfDay) == LocalDay(t, zone) * Day + timeOfDay - zone

\* startOfDay.setHours(0, 0, 0, 0)
StartOfDay(date, zone) == SetHours(DateParse(date), zone, 0)

\* endOfDay.setHours(23, 59, 59, 999): the last tick of the day
EndOfDay(date, zone) == SetHours(DateParse(date), zone, Day - 1)

\* if (student_id) .eq(..); if (room_id) .eq(..); if (date) .gte(..).lte(..)
FilterAttendance(rows, student_id, room_id, date, zone) ==
    { i \in 1..Len(rows) :
        /\ Falsy(student_id) \/ rows[i].student_id = student_id
        /\ Falsy(room_id) \/ rows[i].room_id = room_id
        /\ date = NoNumber
             \/ /\ rows[i].timestamp >= StartOfDay(date, zone)
                /\ rows[i].timestamp <= EndOfDay(date, zone) }

\* .order('timestamp', { ascending: false }); rows of equal timestamp are
\* given in the order of their ids
RECURSIVE NewestFirst(_, _)
NewestFirst(rows, I) ==
    IF I = {} THEN << >>
    ELSE LET i == CHOOSE k \in NewestOf(rows, I) : \A j \in NewestOf(rows, I) : k <= j
         IN  <<rows[i]>> \o NewestFirst(rows, I \ {i})

IdleQuery ==
    [ student_id |-> Absent, room_id |-> Absent, date |-> NoNumber,
      status |-> 0, data |-> << >> ]

\* The whole handler; error is what the store reports.
GetAttendance(student_id, room_id, date, error) ==
    /\ query' =
         [ student_id |-> student_id, room_id |-> room_id, date |-> date,
           status |-> IF error THEN 500 ELSE 200,
           data |-> IF error THEN << >>
                    ELSE NewestFirst(attendance,
                           FilterAttendance(attendance, student_id, room_id, date, tz)) ]
    /\ query' # query
    /\ UNCHANGED <<now, dbVars, req, appVars, tz, marked>>

\* Time zones of the server: UTC-5, UTC and UTC+5:30
Zones == { 0 - 5 * Hour, 0, 5 * Hour + Hour \div 2 }

\* Dates asked for
Dates == 1..MaxDay

\* Instants of the rows: the first tick, noon and the last tick of each day,
\* in each of the zones
InstantsTried ==
    { d * Day + k - z : d \in Dates, k \in {0, Day \div 2, Day - 1}, z \in Zones }

\* Ledgers of two rows, one per student, confirmed at any two of the instants
LedgersTried ==
    { << [id |-> 1, student_id |-> "S1", student_name |-> StudentName("S1"),
          room_id |-> "ROOM-101", confidence |-> 92, timestamp |-> t1],
         [id |-> 2, student_id |-> "S2", student_name |-> StudentName("S2"),
          room_id |-> "ROOM-101", confidence |-> 92, timestamp |-> t2] >> :
        t1 \in InstantsTried, t2 \in InstantsTried }

----------------------------------------------------------------------------
(* Request bodies tried *)

ValidBodies ==
    { [ student_id |-> "S1", student_name |-> StudentName("S1"),
        room_id |-> m, confidence |-> 92 ] : m \in RoomIds }

\* every way of leaving out (undefined) or emptying ('') the required fields
AnyBodies ==
    { [ student_id |-> s, student_name |-> n, room_id |-> m, confidence |-> 92 ] :
        s \in {Absent, "", "S1"}, n \in {Absent, "", "Alice"},
        m \in {Absent, "", "ROOM-101"} }

\* the optional field left out (or null), and percentages from 0 to 100
ConfidenceBodies ==
    { [ student_id |-> "S1", student_name |-> StudentName("S1"),
        room_id |-> roomId, confidence |-> c ] : c \in {NoNumber, 0, 1, 50, 100} }

----------------------------------------------------------------------------
(* Specifications *)

\* no request received, no call answered
InitServer ==
    /\ now = 0
    /\ req = [ r \in Reqs |-> IdleReq ]
    /\ marked = << >>
    /\ query = IdleQuery

\* the useState initial values; the effect on [mode] has started
\* fetchUntrainedStudents
InitApp ==
    /\ mode = "train"
    /\ untrainedStudents = << >>
    /\ selectedStudent = Null
    /\ capturedPhotos = << >>
    /\ task = [ t \in Tasks |-> DoneTask ]
    /\ fetches = 1
    /\ lastSaved = 0
    /\ labeledDescriptors = NotLoaded
    /\ isRecognizing = FALSE
    /\ recognitionInterval = NoTimer
    /\ lastAttendance = NoRow
    /\ loads = 0
    /\ timers = [ k \in TimerIds |-> NoTimerYet ]
    /\ handling = [ h \in Handlers |-> IdleHandler ]

Init ==
    /\ attendance = << >>
    /\ students = [ s \in StudentIds |-> [name |-> StudentName(s), is_trained |-> FALSE] ]
    /\ face_descriptors = [ s \in StudentIds |-> << >> ]
    /\ tz = 0
    /\ InitServer
    /\ InitApp

NextConfirm ==
    \/ Tick
    \/ \E r \in Reqs, body \in ValidBodies : ConfirmReceive(r, body)
    \/ \E r \in Reqs : ConfirmDuplicate(r)
    \/ \E r \in Reqs, checkError \in BOOLEAN : ConfirmProceed(r, checkError)
    \/ \E r \in Reqs : ConfirmInserted(r)
    \/ \E r \in Reqs : ConfirmInsertFailed(r)

SpecConfirm == Init /\ [][NextConfirm]_vars

NextTrain ==
    \/ ClickCapture
    \/ \E t \in Tasks : CaptureNoFace(t)
    \/ \E t \in Tasks : CaptureDetected(t)
    \/ \E t \in Tasks : CaptureSaved(t)
    \/ \E t \in Tasks : CaptureSaveFailed(t)
    \/ \E t \in Tasks : CaptureMarked(t)
    \/ \E t \in Tasks : CaptureMarkFailed(t)
    \/ FetchedUntrained
    \/ FetchFailed
    \/ \E s \in StudentIds : SelectStudent(s)
    \/ SwitchToRecognize
    \/ SwitchToTrain

\* the training panel; the answers to loadAllDescriptors are followed in
\* SpecRecognize
SpecTrain == Init /\ [][NextTrain]_vars

\* the same handler, at one instant, over every shape of request body
NextValidate ==
    \/ \E r \in Reqs, body \in AnyBodies : ConfirmReceive(r, body)
    \/ \E r \in Reqs : ConfirmDuplicate(r)
    \/ \E r \in Reqs, checkError \in BOOLEAN : ConfirmProceed(r, checkError)
    \/ \E r \in Reqs : ConfirmInserted(r)
    \/ \E r \in Reqs : ConfirmInsertFailed(r)

SpecValidate == Init /\ [][NextValidate]_vars

\* the same handler, at one instant, over the values of the optional field
NextConfidence ==
    \/ \E r \in Reqs, body \in ConfidenceBodies : ConfirmReceive(r, body)
    \/ \E r \in Reqs : ConfirmDuplicate(r)
    \/ \E r \in Reqs, checkError \in BOOLEAN : ConfirmProceed(r, checkError)
    \/ \E r \in Reqs : ConfirmInserted(r)
    \/ \E r \in Reqs : ConfirmInsertFailed(r)

SpecConfidence == Init /\ [][NextConfidence]_vars

\* the server alone, POST /api/students/:id/trained called with any id
NextMark ==
    \E id \in PathIds, error \in BOOLEAN : MarkTrained(id, error)

SpecMark == Init /\ [][NextMark]_vars

\* a server in some time zone holding some ledger
InitQuery ==
    /\ attendance \in LedgersTried
    /\ students = [ s \in StudentIds |-> [name |-> StudentName(s), is_trained |-> FALSE] ]
    /\ face_descriptors = [ s \in StudentIds |-> << >> ]
    /\ tz \in Zones
    /\ InitServer
    /\ InitApp

\* the server alone, GET /api/attendance called with any filters
NextQuery ==
    \E student_id \in {Absent, "S1"}, room_id \in {Absent, "ROOM-101"},
       date \in {NoNumber} \cup Dates, error \in BOOLEAN :
        GetAttendance(student_id, room_id, date, error)

SpecQuery == InitQuery /\ [][NextQuery]_vars

\* what the training workflow leaves of a student: no photo, one photo of an
\* unfinished training, or the five photos and the flag
TrainingStates ==
    { [rows |-> 0, is_trained |-> FALSE], [rows |-> 1, is_trained |-> FALSE],
      [rows |-> PhotosNeeded, is_trained |-> TRUE] }

DescriptorRows(s, n) == [ i \in 1..n |-> [student_id |-> s, photo_number |-> i] ]

\* The Recognition Mode button was clicked on the mounted App: the load of
\* the descriptors is awaiting its response (so is the fetch of the untrained
\* students, whose answer only the training panel shows).  The students are
\* registered under any names and trained to any of the states above.
InitRecognize ==
    /\ attendance = << >>
    /\ \E name \in { f \in [StudentIds -> {"Alice", "Bob"}] : f["S1"] = "Alice" },
          st \in [StudentIds -> TrainingStates] :
         /\ students = [ s \in StudentIds |->
                            [name |-> name[s], is_trained |-> st[s].is_trained] ]
         /\ face_descriptors = [ s \in StudentIds |-> DescriptorRows(s, st[s].rows) ]
    /\ tz = 0
    /\ InitServer
    /\ mode = "recognize"
    /\ untrainedStudents = << >>
    /\ selectedStudent = Null
    /\ capturedPhotos = << >>
    /\ task = [ t \in Tasks |-> DoneTask ]
    /\ fetches = 1
    /\ lastSaved = 0
    /\ labeledDescriptors = NotLoaded
    /\ isRecognizing = FALSE
    /\ recognitionInterval = NoTimer
    /\ lastAttendance = NoRow
    /\ loads = 1
    /\ timers = [ k \in TimerIds |-> NoTimerYet ]
    /\ handling = [ h \in Handlers |-> IdleHandler ]

\* the recognition panel and the server handlers it calls
NextRecognize ==
    \/ LoadedDescriptors
    \/ LoadFailed
    \/ StartRecognition
    \/ ClickStopRecognition
    \/ \E k \in TimerIds : \E match \in timers[k].labeledDescriptors :
          RecognizeFace(k, match)
    \/ \E h \in Handlers, s \in StudentIds, r \in Reqs : HandleFoundStudent(h, s, r)
    \/ \E h \in Handlers : HandleNoStudent(h)
    \/ \E h \in Handlers : HandleConfirmed(h)
    \/ \E h \in Handlers : HandleRejected(h)
    \/ \E r \in Reqs : ConfirmDuplicate(r)
    \/ \E r \in Reqs, checkError \in BOOLEAN : ConfirmProceed(r, checkError)
    \/ \E r \in Reqs : ConfirmInserted(r)
    \/ \E r \in Reqs : ConfirmInsertFailed(r)
    \/ Tick

SpecRecognize == InitRecognize /\ [][NextRecognize]_vars

Next ==
    \/ NextConfirm \/ NextValidate \/ NextConfidence \/ NextTrain
    \/ NextMark \/ NextQuery \/ NextRecognize

Spec == Init /\ [][Next]_vars

----------------------------------------------------------------------------
(* Vocabulary of the properties of POST /api/attendance/confirm *)

Done(r) == req[r].pc = "done"

\* r carries non-empty student_id, student_name and room_id
Valid(r) ==
    /\ req[r].pc # "idle"
    /\ req[r].body.student_id \notin {Absent, ""}
    /\ req[r].body.student_name \notin {Absent, ""}
    /\ req[r].body.room_id \notin {Absent, ""}

SamePair(a, b) ==
    /\ req[a].body.student_id = req[b].body.student_id
    /\ req[a].body.room_id = req[b].body.room_id

\* b was issued after a had responded
After(a, b) == a \in req[b].prior

StorageFailed(r) == req[r].checkError \/ req[r].insertError

Apart(x, y) == IF x >= y THEN x - y ELSE y - x

InLedger(row) ==
    /\ row.id \in 1..Len(attendance)
    /\ attendance[row.id] = row

----------------------------------------------------------------------------
(* C1: no two attendance records of one (student_id, room_id) pair have
   timestamps less than five minutes apart, in any reachable state of the
   ledger. *)
C1_CooldownInvariant ==
    \A i, j \in 1..Len(attendance) :
        ( /\ i < j
          /\ attendance[i].student_id = attendance[j].student_id
          /\ attendance[i].room_id = attendance[j].room_id )
        => Apart(attendance[i].timestamp, attendance[j].timestamp) >= FiveMinutes

(* C2: of two confirm calls for one pair, the second issued after the first
   responded and less than five minutes after it, the first having returned
   201 with its record, the second returns 409 with that record as
   lastAttendance and writes nothing, so the pair adds one row. *)
C2_SecondCallIsDuplicate ==
    \A a, b \in Reqs :
        ( /\ After(a, b) /\ Valid(a) /\ Valid(b) /\ SamePair(a, b)
          /\ req[b].called - req[a].called < FiveMinutes
          /\ req[a].status = 201
          /\ Done(b) )
        => /\ req[b].status = 409
           /\ req[b].resp = req[a].resp
           /\ req[b].writes = 0

(* C3, as claimed: the record returned with 201 carries the call time, the
   instant the five-minute window was computed from. *)
C3_TimestampIsCallTime ==
    \A r \in Reqs :
        req[r].status = 201 => req[r].resp.timestamp = req[r].called

(* C3, amended: a valid request whose read finds no record of the pair in the
   window and whose insert is not rejected returns 201 with a new record whose
   timestamp is the clock as read when the read was answered, at or after the
   call time; the step that returns 201 appends exactly that record. *)
C3_TimestampIsInsertTime ==
    /\ [](\A r \in Reqs :
            ( /\ Valid(r) /\ Done(r)
              /\ ~req[r].checkError /\ ~req[r].found /\ ~req[r].insertError )
            => /\ req[r].status = 201
               /\ req[r].resp.timestamp = req[r].answered
               /\ req[r].resp.timestamp >= req[r].called
               /\ req[r].resp.student_id = req[r].body.student_id
               /\ req[r].resp.room_id = req[r].body.room_id
               /\ InLedger(req[r].resp))
    /\ [][\A r \in Reqs :
            (req[r].status # 201 /\ req'[r].status = 201)
            => attendance' = Append(attendance, req'[r].resp)]_vars

C3_Witness ==
    \E r \in Reqs :
        /\ Valid(r) /\ req[r].status = 201 /\ ~req[r].checkError
        /\ req[r].resp.timestamp > req[r].called

\* a and b are the only requests for their pair, b after a, neither hit by a
\* storage failure
TwoCallsAlone(a, b) ==
    /\ After(a, b) /\ Valid(a) /\ Valid(b) /\ SamePair(a, b)
    /\ Done(b)
    /\ ~StorageFailed(a) /\ ~StorageFailed(b)
    /\ \A q \in Reqs \ {a, b} : ~(Valid(q) /\ SamePair(q, a))

(* C4, as claimed: two calls for one pair issued five minutes or more apart,
   exactly five included, both return 201. *)
C4_FiveMinutesApartBothSucceed ==
    \A a, b \in Reqs :
        (TwoCallsAlone(a, b) /\ req[b].called - req[a].called >= FiveMinutes)
        => req[a].status = 201 /\ req[b].status = 201

(* C4, amended: the first call returns 201; the second returns 201, and both
   records are in the ledger, when it is issued more than five minutes after
   the timestamp of the first record, and 409 when it is issued five minutes
   or less after that timestamp. *)
C4_MoreThanFiveMinutesAfterRecord ==
    \A a, b \in Reqs :
        TwoCallsAlone(a, b)
        => /\ req[a].status = 201
           /\ req[b].called - req[a].resp.timestamp > FiveMinutes
                => /\ req[b].status = 201
                   /\ InLedger(req[a].resp) /\ InLedger(req[b].resp)
                   /\ req[a].resp.id # req[b].resp.id
           /\ req[b].called - req[a].resp.timestamp <= FiveMinutes
                => req[b].status = 409 /\ req[b].resp = req[a].resp

C4_Witness ==
    \E a, b \in Reqs :
        /\ TwoCallsAlone(a, b)
        /\ req[b].called - req[a].resp.timestamp > FiveMinutes
        /\ req[b].status = 201

(* C5: a failure of the store on the read or on the insert makes the request
   end in 500, and no storage call is issued twice. *)
C5_StorageFailureIs500 ==
    \A r \in Reqs :
        /\ req[r].reads <= 1 /\ req[r].writes <= 1
        /\ (Done(r) /\ StorageFailed(r)) => req[r].status = 500

(* C6: nothing holds back the insert of a request that has passed the check:
   two requests for one pair whose reads both came back empty and whose
   inserts were both accepted both return 201, each with its own row in the
   ledger; the witness is the race, two such rows less than five minutes
   apart from requests that overlapped. *)
C6_BothInsertsCommit ==
    \A a, b \in Reqs :
        ( /\ a # b /\ Valid(a) /\ Valid(b) /\ SamePair(a, b)
          /\ Done(a) /\ Done(b)
          /\ ~req[a].found /\ ~req[b].found
          /\ ~StorageFailed(a) /\ ~StorageFailed(b) )
        => /\ req[a].status = 201 /\ req[b].status = 201
           /\ InLedger(req[a].resp) /\ InLedger(req[b].resp)
           /\ req[a].resp.id # req[b].resp.id

C6_RaceReached ==
    \E a, b \in Reqs :
        /\ a # b /\ Valid(a) /\ Valid(b) /\ SamePair(a, b)
        /\ ~After(a, b) /\ ~After(b, a)
        /\ ~StorageFailed(a) /\ ~StorageFailed(b)
        /\ req[a].status = 201 /\ req[b].status = 201
        /\ InLedger(req[a].resp) /\ InLedger(req[b].resp)
        /\ req[a].resp.id # req[b].resp.id
        /\ Apart(req[a].resp.timestamp, req[b].resp.timestamp) < FiveMinutes

(* C7: the step that answers 409 changes no table and the request has issued
   no write; the step that answers 201 appends one row to the ledger, the one
   write of the request, and changes no other table; no other step of the
   handler changes a table. *)
C7_WritesOfConfirm ==
    [][\A r \in Reqs :
         req'[r] # req[r]
         => /\ students' = students
            /\ face_descriptors' = face_descriptors
            /\ req'[r].status = 409
                 => attendance' = attendance /\ req'[r].writes = 0
            /\ req'[r].status = 201
                 => /\ Len(attendance') = Len(attendance) + 1
                    /\ SubSeq(attendance', 1, Len(attendance)) = attendance
                    /\ req'[r].writes = 1
            /\ req'[r].status # 201 => attendance' = attendance]_vars

C7_Witness ==
    \E a, b \in Reqs :
        /\ req[a].status = 201 /\ req[b].status = 409
        /\ req[b].resp = req[a].resp
        /\ Len(attendance) = 1

(* C8: a request whose student_id, student_name or room_id is missing or
   empty is answered 400 without a read or a write having been issued,
   whatever the ledger holds. *)
C8_MissingFieldIs400 ==
    \A r \in Reqs :
        ( /\ req[r].pc # "idle"
          /\ \/ req[r].body.student_id \in {Absent, ""}
             \/ req[r].body.student_name \in {Absent, ""}
             \/ req[r].body.room_id \in {Absent, ""} )
        => /\ Done(r) /\ req[r].status = 400
           /\ req[r].reads = 0 /\ req[r].writes = 0
           /\ req[r].resp = NoRow

C8_Witness ==
    \E r \in Reqs :
        /\ req[r].status = 400
        /\ req[r].body.student_id = "S1" /\ req[r].body.student_name = "Alice"
        /\ req[r].body.room_id = Absent
        /\ Len(attendance) > 0
(* C9: no student ever has more than five rows in face_descriptors, whatever
   the clicks, re-selections and mode switches of the training workflow. *)
DescriptorsOf(s) == Len(face_descriptors[s])

C9_AtMostFiveDescriptors ==
    \A s \in StudentIds : DescriptorsOf(s) <= 5

(* C10: a student whose is_trained is true has at least five rows in
   face_descriptors. *)
C10_TrainedHasFiveDescriptors ==
    \A s \in StudentIds : students[s].is_trained => DescriptorsOf(s) >= 5

----------------------------------------------------------------------------
(* POST /api/students/:id/trained *)

\* the call answered in this step, when there is one
MarkAnswered == Len(marked') = Len(marked) + 1
ThisMark == marked'[Len(marked')]

\* C11: marking is idempotent.  A call the store answers without an error
\* leaves the student trained and every other row as it was, and answers 200;
\* when an earlier call for the same id was answered 200, it leaves the whole
\* table as that call left it.
C11_MarkTrainedIdempotent ==
    [][ (MarkAnswered /\ ~ThisMark.error /\ ThisMark.id \in StudentIds) =>
          /\ ThisMark.status = 200
          /\ students'[ThisMark.id].is_trained
          /\ \A s \in StudentIds \ {ThisMark.id} : students'[s] = students[s]
          /\ (\E i \in 1..Len(marked) :
                 marked[i].id = ThisMark.id /\ marked[i].status = 200)
               => students' = students ]_vars

\* the same student marked twice, both calls answered 200
C11_Witness ==
    \E i, j \in 1..Len(marked) :
        /\ i < j
        /\ marked[i].id = marked[j].id /\ marked[i].id \in StudentIds
        /\ marked[i].status = 200 /\ marked[j].status = 200
        /\ students[marked[i].id].is_trained

\* C13: a call for an id that no student has, answered by the store without
\* an error, updates no row, leaves every table as it was and answers 200
\* with no student in the payload.
C13_UnknownIdIsEmptySuccess ==
    [][ (MarkAnswered /\ ~ThisMark.error /\ ThisMark.id \notin DOMAIN students) =>
          /\ dbVars' = dbVars
          /\ ThisMark.status = 200
          /\ ThisMark.data = << >> ]_vars

\* the unknown id was marked and answered
C13_Witness ==
    \E i \in 1..Len(marked) :
        /\ marked[i].id = UnknownId /\ ~marked[i].error
        /\ marked[i].status = 200 /\ marked[i].data = << >>

----------------------------------------------------------------------------
(* GET /api/attendance *)

\* the ids of the rows of the answer
Returned == { query.data[i].id : i \in 1..Len(query.data) }

\* the rows the other two filters let through
PassesFilters(i) ==
    /\ Falsy(query.student_id) \/ attendance[i].student_id = query.student_id
    /\ Falsy(query.room_id) \/ attendance[i].room_id = query.room_id

\* C12: in every time zone of the server, a query with date D answers with
\* exactly the rows (of those the other filters let through) whose timestamp
\* falls on the server's local day D.
C12_DateIsLocalDay ==
    (query.status = 200 /\ query.date # NoNumber) =>
        Returned = { attendance[i].id : i \in
                       { j \in 1..Len(attendance) :
                           /\ PassesFilters(j)
                           /\ LocalDay(attendance[j].timestamp, tz) = query.date } }

----------------------------------------------------------------------------
(* The training session and the recognition session *)

\* the save of call t is answered 201 in this step, and the call was made in
\* the training session under way
SavedNow(t) ==
    /\ task[t].pc = "save" /\ task'[t].pc # "save"
    /\ task[t].current
    /\ face_descriptors' # face_descriptors

\* C15: within one training session the photo numbers saved are 1, 2, 3, ...
\* in this order, none of them twice: each one saved is the one saved before
\* it in the session plus one, whatever the interleaving of the clicks.
C15_PhotoNumbersInSequence ==
    [][ \A t \in Tasks : SavedNow(t) => task[t].photoNumber = lastSaved + 1 ]_vars

\* handleRecognizedAttendance h receives the 201 in this step
ConfirmedNow(h) ==
    /\ handling[h].pc = "confirm" /\ handling'[h].pc = "idle"
    /\ req[handling[h].r].status = 201

\* C14: when the confirm of a recognition session succeeds, the session's
\* timer is cleared and isRecognizing is false, so that the session issues no
\* further recognizeFace tick.
C14_SuccessStopsRecognition ==
    [][ \A h \in Handlers : ConfirmedNow(h) =>
          /\ timers'[handling[h].timer].state = "cleared"
          /\ recognitionInterval' # handling[h].timer
          /\ recognitionInterval' = NoTimer => ~isRecognizing' ]_vars

\* C16: every attendance row made by the recognition flow belongs to a
\* student whose is_trained is true (the students table does not change
\* while the recognition panel is shown).
C16_OnlyTrainedStudentsRecorded ==
    \A i \in 1..Len(attendance) : students[attendance[i].student_id].is_trained

\* C18: the student_id sent to confirm is the id of the student whose stored
\* descriptors were matched.
C18_ConfirmedIdIsOwner ==
    \A h \in Handlers :
        handling[h].pc = "confirm" =>
            req[handling[h].r].body.student_id = handling[h].owner

----------------------------------------------------------------------------
(* The optional confidence *)

\* C17: the row stored for an accepted request carries the confidence the
\* request supplied, 0 included, and null exactly when it supplied none.
C17_ConfidenceStoredAsSupplied ==
    \A r \in Reqs :
        req[r].status = 201 => req[r].resp.confidence = req[r].body.confidence

====
